---- MODULE Spec2Model ----
(***************************************************************************)
(* console_snek: a terminal Snake game (src/src/main.rs).                  *)
(*                                                                         *)
(* Two specifications are given.                                           *)
(*   Spec      the running program: the engine drives GameState.update and *)
(*             LoseState.update, one call per tick, and applies the        *)
(*             transition each call returns.                               *)
(*   SnakeSpec Snake.update and Snake.grow applied to snakes drawn from a  *)
(*             bounded set of positions, velocities and bodies.            *)
(***************************************************************************)
EXTENDS Integers, Sequences, FiniteSets

(* ---- program constants ---- *)
BOARD_WIDTH == 80
BOARD_HEIGHT == 20

(* ---- bounds of the model ---- *)
\* GameState.update calls modelled per play session
MaxTicks == 4
\* the rng draws x from 1..MaxRandX and BOARD_WIDTH-1, y from the two ends of its range
MaxRandX == 1
\* SnakeSpec: coordinates 0..MaxCoord and the two highest of each axis
MaxCoord == 5
\* SnakeSpec: longest body drawn
MaxBody == 2

VARIABLES
    stack,     \* the engine's state stack, bottom first: names of the states
    game,      \* the GameState object of the session
    lose,      \* the LoseState object, None until one is pushed
    pending,   \* the transition returned by the last update, not yet applied
    panicked,  \* TRUE once previous_location.unwrap() failed
    ticks,     \* GameState.update calls made in this session
    phase,     \* what the engine's loop calls next: "update" or "render"
    grows,     \* ticks of this session on which the g key added a segment
    path,      \* the head's locations before its latest moves of this session, latest first
    call       \* record of the last call: name, keys, state before and after the eat step

vars == <<stack, game, lose, pending, panicked, ticks, phase, grows, path, call>>

(* ---- Option<T> ---- *)
None == <<>>
Some(v) == <<v>>

(* ---- Vector2 ---- *)
Vector2(x, y) == [x |-> x, y |-> y]

Vector2Add(a, vector) == [x |-> a.x + vector.x, y |-> a.y + vector.y]

(* ---- BodySegment, Food ---- *)
BodySegment(x, y) == [location |-> Vector2(x, y)]

Food(x, y) == [location |-> Vector2(x, y)]

(* ---- Snake ---- *)
SnakeNew(x, y) ==
    [location |-> Vector2(x, y),
     previous_location |-> None,
     velocity |-> Vector2(0, 0),
     body |-> <<>>]

\* mutant: wraps a negative coordinate to the last cell below the bound
WrapAxis_Symmetric(c, bound) ==
    LET c1 == IF c > bound THEN 0 ELSE c
    IN  IF c1 < 0 THEN bound - 1 ELSE c1

\* mutant: a coordinate below 0 is left as it is
WrapAxis_NoLower(c, bound) ==
    IF c > bound THEN 0 ELSE c

\* the two sequential ifs on one coordinate
WrapAxis(c, bound) ==
    LET c1 == IF c > bound THEN 0 ELSE c
    IN  IF c1 < 0 THEN bound ELSE c1

\* mutant: the head's location is recorded whatever the velocity is
RecordPrevious_Always(s) ==
    [s EXCEPT !.previous_location = Some(s.location)]

\* previous_location as Snake.update records it before moving
RecordPrevious(s) ==
    IF s.velocity.x # 0 \/ s.velocity.y # 0
    THEN [s EXCEPT !.previous_location = Some(s.location)]
    ELSE s

\* the head advanced by the velocity and wrapped
MoveHead(s) ==
    LET moved == Vector2Add(s.location, s.velocity)
    IN  [s EXCEPT !.location = Vector2(WrapAxis(moved.x, BOARD_WIDTH),
                                       WrapAxis(moved.y, BOARD_HEIGHT))]

\* mutant: the relocated tail is pushed back where it was popped
FollowHead_PushBack(s) ==
    IF s.body # <<>>
    THEN LET segment == s.body[Len(s.body)]
             previous_location == s.previous_location[1]
         IN  [s EXCEPT !.body =
                SubSeq(s.body, 1, Len(s.body) - 1)
                \o <<[segment EXCEPT !.location.x = previous_location.x,
                                     !.location.y = previous_location.y]>>]
    ELSE s

\* pop_back, relocate to previous_location, push_front
FollowHead(s) ==
    IF s.body # <<>>
    THEN LET segment == s.body[Len(s.body)]
             previous_location == s.previous_location[1]
         IN  [s EXCEPT !.body =
                <<[segment EXCEPT !.location.x = previous_location.x,
                                  !.location.y = previous_location.y]>>
                \o SubSeq(s.body, 1, Len(s.body) - 1)]
    ELSE s

\* Snake.update fails in unwrap(): a body but no previous_location
SnakeUpdatePanics(s) ==
    /\ s.body # <<>>
    /\ RecordPrevious(s).previous_location = None

SnakeUpdate(s) == FollowHead(MoveHead(RecordPrevious(s)))

\* mutant: the new segment is appended at the tail
SnakeGrow_PushBack(s) ==
    IF s.previous_location # None
    THEN LET previous_location == s.previous_location[1]
         IN  [s EXCEPT !.body =
                @ \o <<BodySegment(previous_location.x, previous_location.y)>>]
    ELSE s

\* mutant: without a previous_location the segment is put on the head
SnakeGrow_AtHead(s) ==
    IF s.previous_location # None
    THEN LET previous_location == s.previous_location[1]
         IN  [s EXCEPT !.body =
                <<BodySegment(previous_location.x, previous_location.y)>> \o @]
    ELSE [s EXCEPT !.body = <<BodySegment(s.location.x, s.location.y)>> \o @]

SnakeGrow(s) ==
    IF s.previous_location # None
    THEN LET previous_location == s.previous_location[1]
         IN  [s EXCEPT !.body =
                <<BodySegment(previous_location.x, previous_location.y)>> \o @]
    ELSE s

(* ---- GameState ---- *)
GameStateNew ==
    [player |-> SnakeNew(0, 1),
     score |-> 0,
     food |-> Food(0, 0)]

\* what gen_range(1..BOARD_WIDTH) and gen_range(1..BOARD_HEIGHT) can return here
RandXs == {x \in 1..(BOARD_WIDTH - 1) : x <= MaxRandX \/ x = BOARD_WIDTH - 1}
RandYs == {y \in 1..(BOARD_HEIGHT - 1) : y = 1 \/ y = BOARD_HEIGHT - 1}

\* mutant: the drawn numbers are taken as zero-based
get_random_location_ZeroBased(x, y) == Vector2(x - 1, y - 1)

get_random_location(x, y) == Vector2(x, y)

RandLocations == {get_random_location(x, y) : x \in RandXs, y \in RandYs}

\* rnd is the location get_random_location returns
move_food(gs, rnd) == [gs EXCEPT !.food.location = rnd]

GameStateSetup(gs, rnd) ==
    [move_food(gs, rnd) EXCEPT !.player.velocity.x = 0, !.player.velocity.y = 0]

(* ---- LoseState ---- *)
LoseStateNew(score) == [score |-> score]

(* ---- Transition ---- *)
NoTransition == [kind |-> "None", lose |-> None, game |-> None]
Push(loseState) == [kind |-> "Push", lose |-> Some(loseState), game |-> None]
CleanPush(gameState) == [kind |-> "CleanPush", lose |-> None, game |-> Some(gameState)]
Quit == [kind |-> "Quit", lose |-> None, game |-> None]

(* ---- GameState.update, step by step ---- *)
\* mutant: eating scores and relocates the food but does not grow
EatStep_NoGrow(gs, rnd) ==
    IF gs.player.location = gs.food.location
    THEN move_food([gs EXCEPT !.score = @ + 1], rnd)
    ELSE gs

EatStep(gs, rnd) ==
    IF gs.player.location = gs.food.location
    THEN move_food([gs EXCEPT !.score = @ + 1, !.player = SnakeGrow(@)], rnd)
    ELSE gs

SelfCollision(gs) ==
    \E i \in DOMAIN gs.player.body :
        gs.player.location = gs.player.body[i].location

\* mutant: an arrow sets its own axis and leaves the other
ApplyArrows_KeepAxis(velocity, keys) ==
    LET v1 == IF "Up" \in keys THEN [velocity EXCEPT !.y = -1] ELSE velocity
        v2 == IF "Down" \in keys THEN [v1 EXCEPT !.y = 1] ELSE v1
        v3 == IF "Left" \in keys THEN [v2 EXCEPT !.x = -1] ELSE v2
        v4 == IF "Right" \in keys THEN [v3 EXCEPT !.x = 1] ELSE v3
    IN  v4

\* mutant: with no arrow key pressed the snake stops
ApplyArrows_Release(velocity, keys) ==
    LET v0 == Vector2(0, 0)
        v1 == IF "Up" \in keys THEN Vector2(0, -1) ELSE v0
        v2 == IF "Down" \in keys THEN Vector2(0, 1) ELSE v1
        v3 == IF "Left" \in keys THEN Vector2(-1, 0) ELSE v2
        v4 == IF "Right" \in keys THEN Vector2(1, 0) ELSE v3
    IN  v4

\* four ifs in the order Up, Down, Left, Right
ApplyArrows(velocity, keys) ==
    LET v1 == IF "Up" \in keys THEN Vector2(0, -1) ELSE velocity
        v2 == IF "Down" \in keys THEN Vector2(0, 1) ELSE v1
        v3 == IF "Left" \in keys THEN Vector2(-1, 0) ELSE v2
        v4 == IF "Right" \in keys THEN Vector2(1, 0) ELSE v3
    IN  v4

\* mutant: the g key scores like food
DebugGrow_Scores(gs, keys) ==
    IF "g" \in keys THEN [gs EXCEPT !.player = SnakeGrow(@), !.score = @ + 1] ELSE gs

DebugGrow(gs, keys) ==
    IF "g" \in keys THEN [gs EXCEPT !.player = SnakeGrow(@)] ELSE gs

\* the state after the arrow keys are read
AfterArrows(gs, keys, rnd) ==
    [EatStep(gs, rnd) EXCEPT !.player.velocity = ApplyArrows(@, keys)]

GameStateUpdatePanics(gs, keys, rnd) ==
    /\ ~SelfCollision(EatStep(gs, rnd))
    /\ "q" \notin keys
    /\ SnakeUpdatePanics(DebugGrow(AfterArrows(gs, keys, rnd), keys).player)

\* mutant: the arrow keys are read before the self-collision check
GameStateUpdate_CollisionAfterInput(gs, keys, rnd) ==
    LET steered == AfterArrows(gs, keys, rnd)
    IN  IF SelfCollision(steered)
        THEN [state |-> steered, transition |-> Push(LoseStateNew(steered.score))]
        ELSE IF "q" \in keys
             THEN [state |-> steered, transition |-> Quit]
             ELSE [state |-> [DebugGrow(steered, keys) EXCEPT !.player = SnakeUpdate(@)],
                   transition |-> NoTransition]

\* mutant: the quit key is read after the snake has grown and moved
GameStateUpdate_QuitAfterMove(gs, keys, rnd) ==
    LET eaten == EatStep(gs, rnd)
    IN  IF SelfCollision(eaten)
        THEN [state |-> eaten, transition |-> Push(LoseStateNew(eaten.score))]
        ELSE LET steered == AfterArrows(gs, keys, rnd)
                 moved == [DebugGrow(steered, keys) EXCEPT !.player = SnakeUpdate(@)]
             IN  [state |-> moved,
                  transition |-> IF "q" \in keys THEN Quit ELSE NoTransition]

\* mutant: a self-collision ends the program instead of showing the lose screen
GameStateUpdate_QuitOnCollision(gs, keys, rnd) ==
    LET eaten == EatStep(gs, rnd)
    IN  IF SelfCollision(eaten)
        THEN [state |-> eaten, transition |-> Quit]
        ELSE LET steered == AfterArrows(gs, keys, rnd)
             IN  IF "q" \in keys
                 THEN [state |-> steered, transition |-> Quit]
                 ELSE [state |-> [DebugGrow(steered, keys) EXCEPT !.player = SnakeUpdate(@)],
                       transition |-> NoTransition]

\* mutant: the g key grows the snake after it has moved
GameStateUpdate_GrowAfterMove(gs, keys, rnd) ==
    LET eaten == EatStep(gs, rnd)
    IN  IF SelfCollision(eaten)
        THEN [state |-> eaten, transition |-> Push(LoseStateNew(eaten.score))]
        ELSE LET steered == AfterArrows(gs, keys, rnd)
             IN  IF "q" \in keys
                 THEN [state |-> steered, transition |-> Quit]
                 ELSE [state |-> DebugGrow([steered EXCEPT !.player = SnakeUpdate(@)], keys),
                       transition |-> NoTransition]

\* the state GameState.update leaves and the transition it returns
GameStateUpdate(gs, keys, rnd) ==
    LET eaten == EatStep(gs, rnd)
    IN  IF SelfCollision(eaten)
        THEN [state |-> eaten, transition |-> Push(LoseStateNew(eaten.score))]
        ELSE LET steered == AfterArrows(gs, keys, rnd)
             IN  IF "q" \in keys
                 THEN [state |-> steered, transition |-> Quit]
                 ELSE [state |-> [DebugGrow(steered, keys) EXCEPT !.player = SnakeUpdate(@)],
                       transition |-> NoTransition]

(* ---- LoseState.update ---- *)
\* mutant: the no and quit keys are read before the yes key
LoseStateUpdate_QuitFirst(ls, keys) ==
    IF "n" \in keys \/ "q" \in keys
    THEN [state |-> ls, transition |-> Quit]
    ELSE IF "y" \in keys
         THEN [state |-> ls, transition |-> CleanPush(GameStateNew)]
         ELSE [state |-> ls, transition |-> NoTransition]

LoseStateUpdate(ls, keys) ==
    IF "y" \in keys
    THEN [state |-> ls, transition |-> CleanPush(GameStateNew)]
    ELSE IF "n" \in keys \/ "q" \in keys
         THEN [state |-> ls, transition |-> Quit]
         ELSE [state |-> ls, transition |-> NoTransition]

(* ---- inputs ---- *)
GameKeys == {"Up", "Down", "Left", "Right", "q", "g"}
LoseKeys == {"y", "n", "q"}

(* ---- the running program ---- *)
NoCall(name, gs) == [op |-> name, keys |-> {}, pre |-> gs, mid |-> gs, rnd |-> Vector2(0, 0)]

Top == IF stack = <<>> THEN "Quit" ELSE stack[Len(stack)]

\* main: the engine runs GameState::new() and calls its setup
Init ==
    /\ stack = <<"GameState">>
    /\ \E rnd \in RandLocations : game = GameStateSetup(GameStateNew, rnd)
    /\ lose = None
    /\ pending = NoTransition
    /\ panicked = FALSE
    /\ ticks = 0
    /\ phase = "update"
    /\ grows = 0
    /\ path = <<>>
    /\ call = NoCall("setup", GameStateNew)

\* the rng is called only when the head is on the food
RngDraws(gs) ==
    IF gs.player.location = gs.food.location THEN RandLocations ELSE {Vector2(0, 0)}

\* the n latest entries of a history: a body of n - 1 segments can grow by two
\* in one tick (food and g), so the next tick looks no further back than n + 1
Latest(history, n) ==
    IF Len(history) <= n THEN history ELSE SubSeq(history, 1, n)

\* the call gets as far as player.update()
ReachesSnakeUpdate(gs, keys, rnd) ==
    /\ ~SelfCollision(EatStep(gs, rnd))
    /\ "q" \notin keys

\* the g key is read and grow() has a previous_location to use
DebugGrowTakesEffect(gs, keys, rnd) ==
    /\ ReachesSnakeUpdate(gs, keys, rnd)
    /\ "g" \in keys
    /\ EatStep(gs, rnd).player.previous_location # None

\* player.update() runs with a nonzero velocity
HeadMoves(gs, keys, rnd) ==
    /\ ReachesSnakeUpdate(gs, keys, rnd)
    /\ AfterArrows(gs, keys, rnd).player.velocity # Vector2(0, 0)

\* SimpleScheduler.update on an active GameState
TickGame ==
    /\ Top = "GameState"
    /\ phase = "update"
    /\ pending = NoTransition
    /\ ~panicked
    /\ ticks < MaxTicks
    /\ phase' = "render"
    /\ \E keys \in SUBSET GameKeys, rnd \in RngDraws(game) :
        /\ call' = [op |-> "GameState.update", keys |-> keys, pre |-> game,
                    mid |-> EatStep(game, rnd), rnd |-> rnd]
        /\ ticks' = ticks + 1
        /\ grows' = IF DebugGrowTakesEffect(game, keys, rnd) THEN grows + 1 ELSE grows
        /\ path' = IF HeadMoves(game, keys, rnd)
                   THEN Latest(<<game.player.location>> \o path,
                               Len(DebugGrow(AfterArrows(game, keys, rnd), keys).player.body) + 1)
                   ELSE path
        /\ IF GameStateUpdatePanics(game, keys, rnd)
           THEN /\ panicked' = TRUE
                /\ game' = DebugGrow(AfterArrows(game, keys, rnd), keys)
                /\ UNCHANGED pending
           ELSE /\ game' = GameStateUpdate(game, keys, rnd).state
                /\ pending' = GameStateUpdate(game, keys, rnd).transition
                /\ UNCHANGED panicked
    /\ UNCHANGED <<stack, lose>>

\* SimpleScheduler.update on an active LoseState
TickLose ==
    /\ Top = "LoseState"
    /\ phase = "update"
    /\ pending = NoTransition
    /\ ~panicked
    /\ phase' = "render"
    /\ \E keys \in SUBSET LoseKeys :
        /\ call' = [op |-> "LoseState.update", keys |-> keys, pre |-> game,
                    mid |-> game, rnd |-> Vector2(0, 0)]
        /\ lose' = Some(LoseStateUpdate(lose[1], keys).state)
        /\ pending' = LoseStateUpdate(lose[1], keys).transition
    /\ UNCHANGED <<stack, game, panicked, ticks, grows, path>>

\* the engine applies the transition an update returned
ApplyTransition ==
    /\ pending # NoTransition
    /\ pending' = NoTransition
    /\ \/ /\ pending.kind = "Push"
          /\ stack' = Append(stack, "LoseState")
          /\ lose' = pending.lose
          /\ call' = NoCall("push", game)
          /\ UNCHANGED <<game, ticks, grows, path>>
       \/ /\ pending.kind = "CleanPush"
          /\ stack' = <<"GameState">>
          /\ lose' = None
          /\ \E rnd \in RandLocations : game' = GameStateSetup(pending.game[1], rnd)
          /\ ticks' = 0
          /\ grows' = 0
          /\ path' = <<>>
          /\ call' = NoCall("setup", game)
       \/ /\ pending.kind = "Quit"
          /\ stack' = <<>>
          /\ call' = NoCall("quit", game)
          /\ UNCHANGED <<game, lose, ticks, grows, path>>
    /\ UNCHANGED <<panicked, phase>>

\* SimpleScheduler.render on the active state: drawing only
Render ==
    /\ stack # <<>>
    /\ phase = "render"
    /\ pending = NoTransition
    /\ ~panicked
    /\ phase' = "update"
    /\ call' = NoCall("render", game)
    /\ UNCHANGED <<stack, game, lose, pending, panicked, ticks, grows, path>>

Next == TickGame \/ TickLose \/ ApplyTransition \/ Render

Spec == Init /\ [][Next]_vars

(* ---- Snake.update and Snake.grow on their own ---- *)
UnitXs == {x \in 0..BOARD_WIDTH : x <= MaxCoord \/ x >= BOARD_WIDTH - 1}
UnitYs == {y \in 0..BOARD_HEIGHT : y <= MaxCoord \/ y >= BOARD_HEIGHT - 1}
UnitSegmentLocations == {Vector2(x, MaxCoord) : x \in (MaxCoord - 1)..MaxCoord}
UnitBodies ==
    UNION {[1..n -> {BodySegment(l.x, l.y) : l \in UnitSegmentLocations}] : n \in 0..MaxBody}

\* snakes the public fields allow and the program keeps: a body implies a previous_location
UnitSnakes ==
    {s \in [location : {Vector2(x, y) : x \in UnitXs, y \in UnitYs},
            previous_location : {None} \cup {Some(l) : l \in UnitSegmentLocations},
            velocity : {Vector2(x, y) : x \in -1..1, y \in -1..1},
            body : UnitBodies] :
        s.body # <<>> => s.previous_location # None}

SnakeInit ==
    /\ stack = <<>>
    /\ lose = None
    /\ pending = NoTransition
    /\ panicked = FALSE
    /\ ticks = 0
    /\ phase = "update"
    /\ grows = 0
    /\ path = <<>>
    /\ \E s \in UnitSnakes :
        /\ game = [GameStateNew EXCEPT !.player = s]
        /\ call = NoCall("Snake", [GameStateNew EXCEPT !.player = s])

CallSnakeUpdate ==
    /\ call.op = "Snake"
    /\ game' = [game EXCEPT !.player = SnakeUpdate(@)]
    /\ call' = NoCall("Snake.update", game)
    /\ UNCHANGED <<stack, lose, pending, panicked, ticks, phase, grows, path>>

CallSnakeGrow ==
    /\ call.op = "Snake"
    /\ game' = [game EXCEPT !.player = SnakeGrow(@)]
    /\ call' = NoCall("Snake.grow", game)
    /\ UNCHANGED <<stack, lose, pending, panicked, ticks, phase, grows, path>>

SnakeNext == CallSnakeUpdate \/ CallSnakeGrow

SnakeSpec == SnakeInit /\ [][SnakeNext]_vars

(* ---- shorthands of the properties ---- *)
Before == call.pre.player
After == game.player
Updated == call.op = "Snake.update"
Grown == call.op = "Snake.grow"

GameTick == call.op = "GameState.update"
LoseTick == call.op = "LoseState.update"
Mid == call.mid
HeadOnBody(gs) ==
    \E i \in 1..Len(gs.player.body) : gs.player.body[i].location = gs.player.location

\* C1: a GameState.update tick whose head is on a body segment after the eat step
\* returns Push of a LoseState carrying the score of that moment, and leaves the
\* snake, score and food as the eat step left them, whatever keys are pressed.
C1_SelfCollision ==
    (GameTick /\ HeadOnBody(Mid)) =>
        /\ pending.kind = "Push"
        /\ pending.lose = Some([score |-> Mid.score])
        /\ game.score = Mid.score
        /\ game.player.velocity = Mid.player.velocity
        /\ game.player.location = Mid.player.location
        /\ game.player.previous_location = Mid.player.previous_location
        /\ game.player.body = Mid.player.body
        /\ ~panicked

\* a collision on a tick that also ate, with every key pressed
C1_Witness ==
    /\ GameTick
    /\ HeadOnBody(Mid)
    /\ call.keys = GameKeys
    /\ Mid.score = call.pre.score + 1
    /\ pending.kind = "Push"
    /\ pending.lose[1].score = call.pre.score + 1

\* C2: a tick that starts with the head on the food scores exactly 1, grows
\* exactly one segment in the eat step and relocates the food exactly once,
\* before the collision check; any other tick's eat step changes nothing.
C2_Eating ==
    GameTick =>
        IF call.pre.player.location = call.pre.food.location
        THEN /\ Mid.score = call.pre.score + 1
             /\ game.score = call.pre.score + 1
             /\ Len(Mid.player.body) = Len(call.pre.player.body) + 1
             /\ SubSeq(Mid.player.body, 2, Len(Mid.player.body)) = call.pre.player.body
             /\ Mid.food.location = call.rnd
             /\ game.food = Mid.food
             /\ (pending.kind = "Push") = HeadOnBody(Mid)
        ELSE /\ Mid = call.pre
             /\ game.score = call.pre.score
             /\ game.food = call.pre.food

C2_Witness ==
    /\ GameTick
    /\ call.pre.player.location = call.pre.food.location
    /\ game.score = call.pre.score + 1
    /\ Len(Mid.player.body) = Len(call.pre.player.body) + 1
    /\ game.food # call.pre.food

\* C7: on the lose screen y requests CleanPush of a fresh GameState (score 0,
\* head (0,1), zero velocity, no body, no previous_location), which replaces the
\* whole stack and gets its food from setup; otherwise n or q requests Quit;
\* with none of the three no transition is requested and the LoseState keeps
\* its score.
C7_Replay ==
    /\ LoseTick =>
        /\ "y" \in call.keys =>
            /\ pending.kind = "CleanPush"
            /\ pending.game = Some([player |-> [location |-> Vector2(0, 1),
                                                previous_location |-> None,
                                                velocity |-> Vector2(0, 0),
                                                body |-> <<>>],
                                    score |-> 0,
                                    food |-> [location |-> Vector2(0, 0)]])
        /\ ("y" \notin call.keys /\ ("n" \in call.keys \/ "q" \in call.keys)) =>
            pending.kind = "Quit"
        /\ call.keys \cap {"y", "n", "q"} = {} => pending.kind = "None"
    /\ Top = "LoseState" => lose = Some([score |-> game.score])
    /\ call.op = "setup" =>
        /\ stack = <<"GameState">>
        /\ lose = None
        /\ game.score = 0
        /\ game.player = [location |-> Vector2(0, 1),
                          previous_location |-> None,
                          velocity |-> Vector2(0, 0),
                          body |-> <<>>]
        /\ game.food.location.x \in 1..(BOARD_WIDTH - 1)
        /\ game.food.location.y \in 1..(BOARD_HEIGHT - 1)

\* a fresh session set up after a lost one that had scored
C7_Witness ==
    /\ call.op = "setup"
    /\ call.pre.score > 0
    /\ call.pre.player.body # <<>>
    /\ game.score = 0
    /\ stack = <<"GameState">>

LastArrow(keys, velocity) ==
    IF "Right" \in keys THEN Vector2(1, 0)
    ELSE IF "Left" \in keys THEN Vector2(-1, 0)
    ELSE IF "Down" \in keys THEN Vector2(0, 1)
    ELSE IF "Up" \in keys THEN Vector2(0, -1)
    ELSE velocity

\* C8: a tick that reaches input handling leaves the velocity of the last pressed
\* arrow in the order Up, Down, Left, Right, or the old velocity when no arrow is
\* pressed; the velocity is always zero or an axis-aligned unit vector.
C8_DirectionalInput ==
    /\ (GameTick /\ ~HeadOnBody(Mid)) =>
        game.player.velocity = LastArrow(call.keys, Mid.player.velocity)
    /\ game.player.velocity \in
        {Vector2(0, 0), Vector2(0, -1), Vector2(0, 1), Vector2(-1, 0), Vector2(1, 0)}

\* Up, Down and Left pressed together while moving right: Left wins
C8_Witness ==
    /\ GameTick
    /\ ~HeadOnBody(Mid)
    /\ call.keys = {"Up", "Down", "Left"}
    /\ Mid.player.velocity = Vector2(1, 0)
    /\ game.player.velocity = Vector2(-1, 0)

FreshSnake ==
    [location |-> Vector2(0, 1), previous_location |-> None,
     velocity |-> Vector2(0, 0), body |-> <<>>]

C9_Step ==
    /\ Top = "Quit" => UNCHANGED vars
    /\ pending = NoTransition => Top' = Top
    /\ Top' # Top =>
        \/ /\ Top = "GameState" /\ Top' = "LoseState"
           /\ GameTick /\ HeadOnBody(game)
        \/ /\ Top = "LoseState" /\ Top' = "GameState"
           /\ LoseTick /\ "y" \in call.keys
           /\ stack' = <<"GameState">>
           /\ game'.score = 0 /\ game'.player = FreshSnake
        \/ /\ Top = "GameState" /\ Top' = "Quit"
           /\ GameTick /\ "q" \in call.keys
        \/ /\ Top = "LoseState" /\ Top' = "Quit"
           /\ LoseTick /\ call.keys \cap {"n", "q"} # {}

\* C9: the active state changes only Playing -> Lost after a self-collision,
\* Lost -> Playing after y with a fresh session, Playing -> Quit after q and
\* Lost -> Quit after n or q; nothing runs after Quit, and a tick that requests
\* no transition leaves the active state as it is.
C9_StateMachine == [][C9_Step]_vars

\* the program has quit from the lose screen of a session that had scored
C9_Witness ==
    /\ stack = <<>>
    /\ call.op = "quit"
    /\ lose # None
    /\ game.score > 0

\* C10: a tick that reaches input handling with q pressed returns Quit whatever
\* else is pressed, and neither grows nor moves the snake: only the velocity may
\* differ from the state after the eat step.
C10_QuitKey ==
    (GameTick /\ ~HeadOnBody(Mid) /\ "q" \in call.keys) =>
        /\ pending.kind = "Quit"
        /\ game.player.location = Mid.player.location
        /\ game.player.previous_location = Mid.player.previous_location
        /\ game.player.body = Mid.player.body
        /\ game.score = Mid.score
        /\ game.food = Mid.food

\* q together with g and an arrow, on a snake that g could have grown
C10_Witness ==
    /\ GameTick
    /\ ~HeadOnBody(Mid)
    /\ call.keys = {"q", "g", "Up"}
    /\ Mid.player.previous_location # None
    /\ Mid.player.velocity = Vector2(1, 0)
    /\ game.player.velocity = Vector2(0, -1)
    /\ pending.kind = "Quit"

InRange(location) ==
    /\ 1 <= location.x /\ location.x < BOARD_WIDTH
    /\ 1 <= location.y /\ location.y < BOARD_HEIGHT

\* C11: while a GameState is active, from setup on and after every relocation,
\* the food is at 1 <= x < BOARD_WIDTH and 1 <= y < BOARD_HEIGHT; setup leaves
\* the velocity at (0,0).
C11_FoodPlacement ==
    /\ Top = "GameState" => InRange(game.food.location)
    /\ (GameTick /\ call.pre.player.location = call.pre.food.location) =>
        /\ InRange(Mid.food.location)
        /\ game.food.location = call.rnd
    /\ call.op = "setup" =>
        /\ InRange(game.food.location)
        /\ game.player.velocity = Vector2(0, 0)

\* the food has just been relocated to the last column and row the rng can give
C11_Witness ==
    /\ GameTick
    /\ call.pre.player.location = call.pre.food.location
    /\ game.food.location = Vector2(BOARD_WIDTH - 1, BOARD_HEIGHT - 1)

RECURSIVE FollowsFrom(_, _)
\* segment i is at path[j], and each later segment is where the one before it is
\* or one move further back
FollowsFrom(i, j) ==
    /\ j <= Len(path)
    /\ game.player.body[i].location = path[j]
    /\ \/ i = Len(game.player.body)
       \/ FollowsFrom(i + 1, j)
       \/ FollowsFrom(i + 1, j + 1)

\* C12 as stated: with a GameState active between two ticks, the i-th segment
\* from the front is where the head was i moves earlier.
C12_BodyMirrorsPath ==
    (Top = "GameState" /\ phase = "update" /\ pending = NoTransition) =>
        \A i \in 1..Len(game.player.body) :
            /\ i <= Len(path)
            /\ game.player.body[i].location = path[i]

\* C12 amended: with a GameState active and a body, the front segment is where
\* the head was one move earlier, and every later segment is where the segment
\* in front of it is or where the head was one move before that: the chain
\* follows the path in order, a grown segment doubling its neighbour's place.
C12_BodyFollowsPath ==
    (Top = "GameState" /\ game.player.body # <<>>) => FollowsFrom(1, 1)

\* three segments between two ticks, the last two on one cell
C12_Witness ==
    /\ Top = "GameState" /\ phase = "update" /\ pending = NoTransition
    /\ Len(game.player.body) = 3
    /\ Len(path) >= 3
    /\ game.player.body[1].location = path[1]
    /\ game.player.body[2].location = path[2]
    /\ game.player.body[3].location = path[2]
    /\ path[3] # path[2]

\* the body as player.update() finds it: the eat step's, with the g key's segment
BodyBeforeSnakeUpdate ==
    IF "g" \in call.keys /\ Mid.player.previous_location # None
    THEN <<[location |-> Mid.player.previous_location[1]]>> \o Mid.player.body
    ELSE Mid.player.body

C14_DebugGrow ==
    (GameTick /\ ~HeadOnBody(Mid) /\ "g" \in call.keys /\ "q" \notin call.keys) =>
        /\ game.score = Mid.score
        /\ game.food = Mid.food
        /\ IF Mid.player.previous_location = None
           THEN game.player.body = Mid.player.body
           ELSE /\ Len(game.player.body) = Len(Mid.player.body) + 1
                /\ Mid.player.body # <<>> =>
                    game.player.body =
                        <<[location |-> Mid.player.location],
                          [location |-> Mid.player.previous_location[1]]>>
                        \o SubSeq(Mid.player.body, 1, Len(Mid.player.body) - 1)

\* g on a moving snake that already has a body
C14_Witness ==
    /\ GameTick
    /\ ~HeadOnBody(Mid)
    /\ call.keys = {"g"}
    /\ Mid.player.body # <<>>
    /\ Len(game.player.body) = Len(Mid.player.body) + 1
    /\ game.player.location # Mid.player.location

\* C15: in every state reached from GameState::new() through setup and update
\* calls, a body implies a previous_location, and unwrap() has never failed.
C15_NoUnwrapFailure ==
    /\ ~panicked
    /\ game.player.body # <<>> => game.player.previous_location # None

\* Snake.update has just relocated the tail of a snake that had a body
C15_Witness ==
    /\ GameTick
    /\ pending = NoTransition
    /\ Mid.player.body # <<>>
    /\ game.player.location # Mid.player.location
    /\ game.player.body[1].location = game.player.previous_location[1]

\* C16: the body length is the score plus the number of ticks of the session on
\* which the g key added a segment; without g it is the score.
C16_GrowthAccounting ==
    /\ Len(game.player.body) = game.score + grows
    /\ grows = 0 => Len(game.player.body) = game.score

\* a session between two ticks that has both eaten and grown by the g key
C16_Witness ==
    /\ Top = "GameState" /\ phase = "update" /\ pending = NoTransition
    /\ game.score >= 1
    /\ grows >= 1
    /\ Len(game.player.body) = game.score + grows

\* C17: the head is always at 0 <= x <= BOARD_WIDTH and 0 <= y <= BOARD_HEIGHT.
C17_HeadBounds ==
    /\ 0 <= game.player.location.x /\ game.player.location.x <= BOARD_WIDTH
    /\ 0 <= game.player.location.y /\ game.player.location.y <= BOARD_HEIGHT

\* the head is on column BOARD_WIDTH and row BOARD_HEIGHT
C17_Witness ==
    /\ Top = "GameState"
    /\ game.player.location = Vector2(BOARD_WIDTH, BOARD_HEIGHT)

C18_Step ==
    (game.player.velocity # Vector2(0, 0) /\ call'.op # "setup") =>
        /\ game'.player.velocity # Vector2(0, 0)
        /\ (call'.op = "GameState.update" /\ pending' = NoTransition /\ ~panicked') =>
            /\ game'.player.location # game.player.location
            /\ game'.player.previous_location = Some(game.player.location)

\* C18: within a session, a nonzero velocity stays nonzero, and every later tick
\* that reaches Snake.update moves the head and sets previous_location to the
\* head's location before the move.
C18_CannotStop == [][C18_Step]_vars

\* a moving snake has moved on with no key pressed
C18_Witness ==
    /\ GameTick
    /\ call.keys = {}
    /\ pending = NoTransition
    /\ Mid.player.velocity # Vector2(0, 0)
    /\ game.player.velocity = Mid.player.velocity
    /\ game.player.location # Mid.player.location
    /\ game.player.previous_location = Some(Mid.player.location)

\* C3: after Snake.update a moved coordinate above the bound is 0, one below 0 is
\* the bound, and any other is the coordinate plus the velocity, on both axes.
C3_Wraparound ==
    Updated =>
        LET mx == Before.location.x + Before.velocity.x
            my == Before.location.y + Before.velocity.y
        IN  /\ mx > BOARD_WIDTH => After.location.x = 0
            /\ mx < 0 => After.location.x = BOARD_WIDTH
            /\ (0 <= mx /\ mx <= BOARD_WIDTH) => After.location.x = mx
            /\ my > BOARD_HEIGHT => After.location.y = 0
            /\ my < 0 => After.location.y = BOARD_HEIGHT
            /\ (0 <= my /\ my <= BOARD_HEIGHT) => After.location.y = my

\* x = 80 moved by +1 has become 0
C3_Witness ==
    /\ Updated
    /\ Before.location.x = BOARD_WIDTH /\ Before.velocity.x = 1
    /\ After.location.x = 0

\* C4: Snake.update with nonzero velocity and a body keeps the body length, puts
\* the former tail at the front on the head's old location, keeps the other
\* segments in order, and advances the head by the velocity (wrapped at the edge).
C4_FollowTheLeader ==
    (/\ Updated
     /\ Before.velocity # Vector2(0, 0)
     /\ Before.body # <<>>) =>
        LET n == Len(Before.body)
            mx == Before.location.x + Before.velocity.x
            my == Before.location.y + Before.velocity.y
        IN  /\ Len(After.body) = n
            /\ After.body[1].location = Before.location
            /\ \A i \in 1..(n - 1) : After.body[i + 1] = Before.body[i]
            /\ After.location.x = (IF mx > BOARD_WIDTH THEN 0 ELSE IF mx < 0 THEN BOARD_WIDTH ELSE mx)
            /\ After.location.y = (IF my > BOARD_HEIGHT THEN 0 ELSE IF my < 0 THEN BOARD_HEIGHT ELSE my)

\* head (5,5), velocity (1,0), one segment at (4,5) -> head (6,5), segment (5,5)
C4_Witness ==
    /\ Updated
    /\ Before.location = Vector2(5, 5) /\ Before.velocity = Vector2(1, 0)
    /\ Before.body = <<BodySegment(4, 5)>>
    /\ After.location = Vector2(6, 5)
    /\ After.body = <<BodySegment(5, 5)>>

\* C5: Snake.grow with previous_location set adds exactly one segment, at the
\* front, located at previous_location, and changes nothing else.
C5_GrowAddsFront ==
    (Grown /\ Before.previous_location # None) =>
        /\ Len(After.body) = Len(Before.body) + 1
        /\ After.body[1].location = Before.previous_location[1]
        /\ \A i \in 1..Len(Before.body) : After.body[i + 1] = Before.body[i]
        /\ After.location = Before.location
        /\ After.velocity = Before.velocity
        /\ After.previous_location = Before.previous_location

C5_Witness ==
    /\ Grown
    /\ Before.previous_location = Some(Vector2(MaxCoord, MaxCoord))
    /\ Len(Before.body) = 1
    /\ Len(After.body) = 2

\* C6: Snake.grow with previous_location None changes nothing.
C6_GrowNoneNoOp ==
    (Grown /\ Before.previous_location = None) => After = Before

C6_Witness ==
    /\ Grown
    /\ Before.previous_location = None
    /\ After.body = <<>>

====
